---- MODULE Spec2Model ----
(***************************************************************************)
(* The per-PLC connection engine of libplctag's src/util/plc.c: the state  *)
(* machine driven by plc_state_runner, the request queue, the error        *)
(* macros, the entry points that take the PLC mutex, and the PLC registry  *)
(* of plc_get.                                                             *)
(*                                                                         *)
(* One PLC instance is modelled.  Each state function is one action, run   *)
(* by the thread that holds the PLC mutex; the loop of plc_state_runner    *)
(* is the repetition of these actions while they return PENDING.  The      *)
(* packing loop of state_build_tag_request takes one step per iteration.   *)
(* Layers, request callbacks, the socket and the clock are collaborators   *)
(* outside plc.c: their results are inputs drawn from small sets.          *)
(***************************************************************************)
EXTENDS Integers, Sequences, FiniteSets, TLC

VARIABLES
    plc,          \* struct plc_s of the modelled PLC (plc.c:122-170)
    sock,         \* the socket object behind plc->socket
    now,          \* the millisecond clock read by time_ms() / event_loop_time()
    mutex_owner,  \* the thread holding plc->plc_mutex, or "none"
    running,      \* the threads inside the loop of plc_state_runner
    bt,           \* the locals of state_build_tag_request while its loop runs
    app_op,       \* the API call of the application thread that is in progress
    api_ret,      \* the API call that returned in the last step, with its result
    ev,           \* what the last step of the engine did
    life,         \* "live", "terminating" (plc_rc_destroy began) or "destroyed"
    hist,         \* history: the requests stopped and not started again
    reg,          \* the registry: plc_list and the PLCs allocated so far
    get_ret       \* what the last plc_get returned

vars == <<plc, sock, now, mutex_owner, running, bt, app_op, api_ret, ev, life,
          hist, reg, get_ret>>

engine_vars == <<plc, sock, now, mutex_owner, running, bt, app_op, api_ret, ev,
                 life, hist>>

registry_vars == <<reg, get_ret>>

-----------------------------------------------------------------------------
(* Bounds of the model. *)

MaxRequests == 2
MaxReqId == 1
MaxNow == 1
MaxCap == 1
MaxPlcs == 3
MaxPacked == 3

(* Constants of the program. *)

MAX_RETRY_INTERVAL_MS == 16000
MIN_RETRY_INTERVAL_MS == 1000
DEFAULT_IDLE_TIMEOUT_MS == 5000
INVALID_REQUEST_ID == -1

Requests == 1 .. MaxRequests
ReqIds == 0 .. MaxReqId
Threads == {"io", "timer", "app"}

\* Status codes.  "ERR" stands for every error kind the engine does not name.
RcAll == {"OK", "PENDING", "PARTIAL", "RETRY", "TOO_SMALL", "ERR"}
RcArm == {"OK", "ERR"}

\* The marker pairs a callback may leave: start <= end within [0, capacity].
Bounds(cap) == {b \in (0 .. cap) \X (0 .. cap) : b[1] <= b[2]}

\* build_layer with result OK leaves the finished frame: the header and the
\* trailer it reserved are filled in around the payload [s, e).
FrameBounds(s, e, cap) == {b \in Bounds(cap) : b[1] <= s /\ b[2] >= e}

\* build_layer with result PENDING leaves the space that remains for the next
\* request, after the payload that ends at e.
NextWindow(e, cap) == {b \in Bounds(cap) : b[1] >= e}

\* build_request writes the payload at the start of the window [s, e) and
\* leaves data_end at the payload's end.
PayloadEnds(s, e) == s .. e

-----------------------------------------------------------------------------
(* Sequences. *)

InSeq(x, s) == \E i \in 1 .. Len(s) : s[i] = x

Count(x, s) == Cardinality({i \in 1 .. Len(s) : s[i] = x})

\* s without the first occurrence of x.
RemoveFirst(x, s) ==
    IF ~InSeq(x, s) THEN s
    ELSE LET i == CHOOSE j \in 1 .. Len(s) :
                      s[j] = x /\ \A k \in 1 .. j - 1 : s[k] # x
         IN  SubSeq(s, 1, i - 1) \o SubSeq(s, i + 1, Len(s))

IsPrefix(s, t) == Len(s) <= Len(t) /\ \A i \in 1 .. Len(s) : s[i] = t[i]

SeqSet(s) == {s[i] : i \in 1 .. Len(s)}

-----------------------------------------------------------------------------
(* Records of the model. *)

NoBt == [active |-> FALSE]

NoOp == [op |-> "none", req |-> 0]

NoRet == [op |-> "none", req |-> 0, rc |-> "OK", dup |-> FALSE]

NoEv == [kind |-> "none", fn |-> "-", lrc |-> "-", brc |-> "-", lid |-> -1,
         delivered |-> 0, err |-> "none", built |-> <<>>, sent |-> <<>>,
         head |-> 0]

Ev(p, fn) == [kind |-> "state", fn |-> fn, lrc |-> "-", brc |-> "-",
              lid |-> -1, delivered |-> 0,
              err |-> "none", built |-> <<>>, sent |-> <<>>,
              head |-> IF p.request_list = <<>> THEN 0 ELSE Head(p.request_list)]

Res(p, s, rc, e) == [plc |-> p, sock |-> s, rc |-> rc, ev |-> e, bt |-> NoBt]

-----------------------------------------------------------------------------
(* The error macros and reset_plc. *)

NEXT_STATE(p, state) == [p EXCEPT !.state_func = state]

ResetPayloadEnd(p) == [p EXCEPT !.payload_end = 0]

\* plc->payload_end = plc->payload_start = 0
ResetPayload(p) == [p EXCEPT !.payload_end = 0, !.payload_start = 0]

Backoff(interval) ==
    IF interval * 2 > MAX_RETRY_INTERVAL_MS THEN MAX_RETRY_INTERVAL_MS
    ELSE interval * 2

socket_close(s) == [s EXCEPT !.open = FALSE, !.armed = "none"]

ResetKeepsConnection(p, s) ==
    [plc |-> p, sock |-> IF s.created THEN socket_close(s) ELSE s]

reset_plc(p, s) ==
    [plc |-> [p EXCEPT !.is_connected = FALSE],
     sock |-> IF s.created THEN socket_close(s) ELSE s]

DISCONNECT_ON_ERROR(p, s, fn) ==
    LET interval == Backoff(p.retry_interval_ms)
        q == [p EXCEPT !.retry_interval_ms = interval,
                       !.next_retry_time = now + interval,
                       !.state_func = "state_start_disconnect"]
    IN  Res(q, s, "PENDING", [Ev(p, fn) EXCEPT !.err = "disconnect"])

ResetAsDisconnect(p, s, fn) == DISCONNECT_ON_ERROR(p, s, fn)

RESET_ON_ERROR(p, s, fn) ==
    LET r == reset_plc(p, s)
        interval == Backoff(r.plc.retry_interval_ms)
        q == [r.plc EXCEPT !.retry_interval_ms = interval,
                           !.next_retry_time = now + interval,
                           !.state_func = "state_dispatch_requests"]
    IN  Res(q, r.sock, "OK", [Ev(p, fn) EXCEPT !.err = "reset"])

SpuriousWakeupIsAnError(p, s, fn) == DISCONNECT_ON_ERROR(p, s, fn)

\* The body of SPURIOUS_WAKEUP_IF: the state function returns OK and nothing
\* else happens, so the runner leaves the loop with the PLC as it was.
SPURIOUS_WAKEUP_IF(p, s, fn) == Res(p, s, "OK", Ev(p, fn))

NeverTerminating(p) == FALSE

\* The test of CHECK_TERMINATION.
Terminating(p) == p.is_terminating

CHECK_TERMINATION(p, s, fn) ==
    Res(NEXT_STATE(p, "state_dispatch_requests"), s, "PENDING", Ev(p, fn))

\* socket_callback_when_*: with result OK the callback is armed and the
\* socket's status is PENDING until the completion.
Arm(s, what, rc) ==
    IF rc = "OK" THEN [s EXCEPT !.armed = what, !.status = "PENDING",
                                !.open = TRUE]
    ELSE s

\* The results arming can have: a closed socket accepts only a new connect.
ArmRcs(s, what) == IF s.open \/ what = "connect" THEN RcArm ELSE {"ERR"}

-----------------------------------------------------------------------------
(* The dispatch state and the send/receive states. *)

RetryTimeAlwaysPast(p) == FALSE

\* "check the error timeout": the retry time is not past.
RetryTimeNotPast(p) == p.next_retry_time > now

IdleNeverExpires(p) == FALSE

\* The idle test of dispatch: connected and past next_idle_timeout.
IdleExpired(p) == p.is_connected /\ p.next_idle_timeout < now

state_dispatch_requests(p, s) ==
    LET e == Ev(p, "state_dispatch_requests") IN
    IF p.is_terminating THEN
        IF p.is_connected
        THEN Res(NEXT_STATE(p, "state_start_disconnect"), s, "PENDING", e)
        ELSE Res(NEXT_STATE(p, "state_terminate"), s, "OK", e)
    ELSE IF IdleExpired(p) THEN
        Res(NEXT_STATE(p, "state_start_disconnect"), s, "PENDING", e)
    ELSE IF RetryTimeNotPast(p) THEN
        Res(p, s, "OK", e)
    ELSE IF p.request_list # <<>> THEN
        IF ~p.is_connected
        THEN Res(NEXT_STATE(p, "state_start_connect"), s, "PENDING", e)
        ELSE Res(NEXT_STATE(p, "state_reserve_space_for_tag_request"), s,
                 "PENDING", e)
    ELSE Res(NEXT_STATE(p, "state_dispatch_requests"), s, "OK", e)

\* lrc, b, id: what the top layer's reserve_space returns and leaves in
\* data_start, data_end and req_id.
state_reserve_space_for_tag_request(p, s, lrc, b, id) ==
    LET fn == "state_reserve_space_for_tag_request" IN
    IF lrc # "OK" THEN DISCONNECT_ON_ERROR(p, s, fn)
    ELSE Res([p EXCEPT !.payload_start = b[1], !.payload_end = b[2],
                       !.current_request_id = id,
                       !.state_func = "state_build_tag_request"],
             s, "PENDING", Ev(p, fn))

BtEntryFromSecond(p) ==
    [active |-> TRUE, data_start |-> p.payload_start, data_end |-> p.payload_end,
     old_data_end |-> p.payload_end, req_id |-> p.current_request_id,
     cur |-> IF Len(p.request_list) >= 2 THEN 2 ELSE 1, first_try |-> TRUE,
     built |-> <<>>, packed |-> <<>>]

\* The locals of state_build_tag_request at its entry (plc.c:1016-1023).
BtEntry(p) ==
    [active |-> TRUE, data_start |-> p.payload_start, data_end |-> p.payload_end,
     old_data_end |-> p.payload_end, req_id |-> p.current_request_id,
     cur |-> 1, first_try |-> TRUE, built |-> <<>>, packed |-> <<>>]

\* The request's req_id as the packing loop leaves it (plc.c:1063).
SetReqId(p, r, id) == [p EXCEPT !.req_id[r] = id]

TooSmallTolerated(brc, first_try) == FALSE

\* A request that does not fit even an empty packet can never be sent.
TooSmallOnFirstTry(brc, first_try) == brc = "TOO_SMALL" /\ first_try

\* One iteration of the loop of state_build_tag_request, from locals loc.
\* brc, bend: what the request's build_request returns and where it leaves
\* data_end; lrc, lb, lid: what build_layer returns and leaves in data_start,
\* data_end and req_id; arc: what socket_callback_when_write_done returns.
state_build_tag_request(p, s, loc, brc, bend, lrc, lb, lid, arc) ==
    LET fn == "state_build_tag_request" IN
    IF Terminating(p) THEN CHECK_TERMINATION(p, s, fn)
    ELSE IF loc.cur > Len(p.request_list) THEN
        Res(NEXT_STATE(p, "state_dispatch_requests"), s, "PENDING", Ev(p, fn))
    ELSE
        LET r == p.request_list[loc.cur]
            built == Append(loc.built, r)
            e == [Ev(p, fn) EXCEPT !.built = built, !.brc = brc]
            err(q) == [DISCONNECT_ON_ERROR(q, s, fn)
                          EXCEPT !.ev.built = built, !.ev.brc = brc]
        IN
        IF brc \notin {"OK", "TOO_SMALL"} THEN err(p)
        ELSE IF TooSmallOnFirstTry(brc, loc.first_try) THEN err(p)
        ELSE
            LET old_data_end == IF brc = "TOO_SMALL" THEN loc.old_data_end
                                ELSE bend
                packed == IF brc = "TOO_SMALL" THEN loc.packed
                          ELSE Append(loc.packed, r)
                p1 == SetReqId(p, r, loc.req_id)
                send(data_end) ==
                    LET p2 == [p1 EXCEPT !.payload_end = data_end,
                                         !.state_func = "state_tag_request_sent"]
                    IN  IF arc # "OK" THEN err(p2)
                        ELSE Res(p2, Arm(s, "write", arc), "OK",
                                 [e EXCEPT !.sent = packed])
            IN
            IF lrc \notin {"OK", "PENDING"} THEN err(p1)
            ELSE IF lrc = "OK" THEN send(lb[2])
            ELSE IF loc.cur + 1 <= Len(p.request_list) THEN
                [plc |-> p1, sock |-> s, rc |-> "LOOP", ev |-> e,
                 bt |-> [active |-> TRUE, data_start |-> lb[1],
                         data_end |-> lb[2], old_data_end |-> old_data_end,
                         req_id |-> lid, cur |-> loc.cur + 1,
                         first_try |-> FALSE, built |-> built,
                         packed |-> packed]]
            ELSE send(old_data_end)

WriteNeverPending(s) == FALSE

\* "find out why we got called": the write is still going on.
WritePending(s) == s.status = "PENDING"

\* lrc: what reserve_space returns; arc: what socket_callback_when_read_done
\* returns.
state_tag_request_sent(p, s, lrc, arc) ==
    LET fn == "state_tag_request_sent" IN
    IF WritePending(s) THEN SPURIOUS_WAKEUP_IF(p, s, fn)
    ELSE IF s.status # "OK" THEN DISCONNECT_ON_ERROR(p, s, fn)
    ELSE IF lrc # "OK" THEN DISCONNECT_ON_ERROR(p, s, fn)
    ELSE
        LET p1 == [ResetPayload(p)
                      EXCEPT !.state_func = "state_tag_response_ready"]
        IN  IF arc # "OK" THEN DISCONNECT_ON_ERROR(p1, s, fn)
            ELSE Res(p1, Arm(s, "read", arc), "OK", Ev(p, fn))

MatchedWhateverTheId(p, lid) ==
    IF p.request_list # <<>> THEN Head(p.request_list) ELSE 0

\* The request a complete response with id lid is delivered to: the head of
\* the queue when its req_id matches (plc.c:1207-1208), else none (0).
Matched(p, lid) ==
    IF p.request_list # <<>> /\ lid = p.req_id[Head(p.request_list)]
    THEN Head(p.request_list) ELSE 0

ReadNotRearmed(s, arc) == s

\* The read is armed again for the rest of a partial response.
RearmRead(s, arc) == Arm(s, "read", arc)

\* lrc, lid: what the top layer's process_response returns and leaves in
\* req_id; prc: what the request's process_response returns; arc: what
\* socket_callback_when_read_done returns.
state_tag_response_ready(p, s, lrc, lid, prc, arc) ==
    LET fn == "state_tag_response_ready"
        e == [Ev(p, fn) EXCEPT !.lrc = lrc,
                               !.lid = IF lrc = "OK" THEN lid ELSE -1]
    IN
    IF Terminating(p) THEN CHECK_TERMINATION(p, s, fn)
    ELSE IF s.status = "PENDING" THEN SPURIOUS_WAKEUP_IF(p, s, fn)
    ELSE IF s.status # "OK" THEN DISCONNECT_ON_ERROR(p, s, fn)
    ELSE IF lrc \notin {"OK", "PARTIAL"} THEN
        [DISCONNECT_ON_ERROR(p, s, fn) EXCEPT !.ev.lrc = lrc]
    ELSE IF lrc = "PARTIAL" THEN
        IF arc # "OK" THEN [DISCONNECT_ON_ERROR(p, s, fn) EXCEPT !.ev.lrc = lrc]
        ELSE Res(p, RearmRead(s, arc), "OK", e)
    ELSE
        LET r == Matched(p, lid) IN
        IF r # 0 THEN
            LET p1 == [p EXCEPT !.request_list = Tail(p.request_list)] IN
            IF prc # "OK"
            THEN [DISCONNECT_ON_ERROR(p1, s, fn)
                    EXCEPT !.ev.lrc = lrc, !.ev.lid = lid,
                           !.ev.delivered = r, !.ev.head = e.head]
            ELSE Res(NEXT_STATE(p1, "state_dispatch_requests"), s, "PENDING",
                     [e EXCEPT !.delivered = r])
        ELSE Res(NEXT_STATE(p, "state_dispatch_requests"), s, "PENDING", e)

-----------------------------------------------------------------------------
(* The connect states. *)

\* crc: what socket_create returns; irc: what the top layer's initialize
\* returns; arc: what socket_callback_when_connection_ready returns.
state_start_connect(p, s, crc, irc, arc) ==
    LET fn == "state_start_connect" IN
    IF Terminating(p) THEN CHECK_TERMINATION(p, s, fn)
    ELSE IF RetryTimeNotPast(p) THEN
        Res(NEXT_STATE(p, "state_dispatch_requests"), s, "PENDING", Ev(p, fn))
    ELSE IF p.is_connected THEN
        Res(NEXT_STATE(p, "state_dispatch_requests"), s, "PENDING", Ev(p, fn))
    ELSE IF ~s.created /\ crc # "OK" THEN RESET_ON_ERROR(p, s, fn)
    ELSE
        LET s1 == [s EXCEPT !.created = TRUE] IN
        IF irc # "OK" THEN DISCONNECT_ON_ERROR(p, s1, fn)
        ELSE
            LET p1 == NEXT_STATE(p, "state_build_layer_connect_request") IN
            IF arc # "OK" THEN DISCONNECT_ON_ERROR(p1, s1, fn)
            ELSE Res(p1, Arm(s1, "connect", arc), "OK", Ev(p, fn))

\* lrc, cb: what the top layer's connect returns and leaves in payload_start
\* and payload_end; blrc, bb, bid: the same for build_layer, with
\* current_request_id; arc: what socket_callback_when_write_done returns.
state_build_layer_connect_request(p, s, lrc, cb, blrc, bb, bid, arc) ==
    LET fn == "state_build_layer_connect_request" IN
    IF Terminating(p) THEN CHECK_TERMINATION(p, s, fn)
    ELSE IF s.status = "PENDING" THEN SPURIOUS_WAKEUP_IF(p, s, fn)
    ELSE IF s.status # "OK" THEN DISCONNECT_ON_ERROR(p, s, fn)
    ELSE
        LET p0 == ResetPayload(p)
            p1 == [p0 EXCEPT !.payload_start = cb[1], !.payload_end = cb[2]]
        IN
        IF lrc \notin {"OK", "PENDING"} THEN DISCONNECT_ON_ERROR(p0, s, fn)
        ELSE IF lrc = "OK" THEN
            Res([p1 EXCEPT !.is_connected = TRUE,
                           !.state_func = "state_dispatch_requests"],
                s, "OK", Ev(p, fn))
        ELSE IF blrc # "OK" THEN DISCONNECT_ON_ERROR(p1, s, fn)
        ELSE
            LET p2 == [p1 EXCEPT !.payload_start = bb[1], !.payload_end = bb[2],
                                 !.current_request_id = bid,
                                 !.state_func = "state_layer_connect_request_sent"]
            IN  IF arc # "OK" THEN DISCONNECT_ON_ERROR(p2, s, fn)
                ELSE Res(p2, Arm(s, "write", arc), "OK", Ev(p, fn))

\* arc: what socket_callback_when_read_done returns.
state_layer_connect_request_sent(p, s, arc) ==
    LET fn == "state_layer_connect_request_sent" IN
    IF Terminating(p) THEN CHECK_TERMINATION(p, s, fn)
    ELSE IF s.status = "PENDING" THEN SPURIOUS_WAKEUP_IF(p, s, fn)
    ELSE IF s.status # "OK" THEN DISCONNECT_ON_ERROR(p, s, fn)
    ELSE
        LET p1 == [ResetPayload(p)
                      EXCEPT !.state_func = "state_layer_connect_response_ready"]
        IN  IF arc # "OK" THEN DISCONNECT_ON_ERROR(p1, s, fn)
            ELSE Res(p1, Arm(s, "read", arc), "OK", Ev(p, fn))

RetryFromStartConnect(p) == NEXT_STATE(p, "state_start_connect")

\* "Connection attempt needs to be retried."
RetryConnect(p) == NEXT_STATE(p, "state_build_layer_connect_request")

\* lrc, lid: what the top layer's process_response returns and leaves in
\* current_request_id.
state_layer_connect_response_ready(p, s, lrc, lid) ==
    LET fn == "state_layer_connect_response_ready"
        e == [Ev(p, fn) EXCEPT !.lrc = lrc]
    IN
    IF Terminating(p) THEN CHECK_TERMINATION(p, s, fn)
    ELSE IF s.status = "PENDING" THEN SPURIOUS_WAKEUP_IF(p, s, fn)
    ELSE IF s.status # "OK" THEN DISCONNECT_ON_ERROR(p, s, fn)
    ELSE
        LET p1 == [p EXCEPT !.current_request_id = lid] IN
        IF lrc = "PARTIAL" THEN Res(p1, s, "OK", e)
        ELSE IF lrc = "RETRY" THEN
            Res(RetryConnect(p1), s, "PENDING", e)
        ELSE IF lrc # "OK" THEN
            [DISCONNECT_ON_ERROR(p, s, fn) EXCEPT !.ev.lrc = lrc]
        ELSE Res(p1, s, "OK", e)

-----------------------------------------------------------------------------
(* The disconnect states and the terminal state. *)

StillConnected(p) == p

\* "Disconnect complete": plc->is_connected = false.
Disconnected(p) == [p EXCEPT !.is_connected = FALSE]

state_start_disconnect(p, s) ==
    LET fn == "state_start_disconnect" IN
    IF ~p.is_connected THEN
        Res(NEXT_STATE(p, "state_dispatch_requests"), s, "PENDING", Ev(p, fn))
    ELSE Res([ResetPayload(p)
                 EXCEPT !.state_func = "state_build_layer_disconnect_request"],
             s, "PENDING", Ev(p, fn))

\* lrc: what the top layer's disconnect returns; blrc, bb: what build_layer
\* returns and leaves in data_start and data_end; arc: what
\* socket_callback_when_write_done returns.
state_build_layer_disconnect_request(p, s, lrc, blrc, bb, arc) ==
    LET fn == "state_build_layer_disconnect_request" IN
    IF lrc \notin {"OK", "PENDING"} THEN RESET_ON_ERROR(p, s, fn)
    ELSE IF lrc = "OK" THEN
        Res(Disconnected(p), s, "OK", Ev(p, fn))
    ELSE IF blrc # "OK" THEN RESET_ON_ERROR(p, s, fn)
    ELSE
        LET p1 == [p EXCEPT !.payload_start = 0, !.payload_end = bb[2],
                            !.state_func = "state_layer_disconnect_request_sent"]
        IN  IF arc # "OK" THEN RESET_ON_ERROR(p1, s, fn)
            ELSE Res(p1, Arm(s, "write", arc), "OK", Ev(p, fn))

\* arc: what socket_callback_when_read_done returns.
state_layer_disconnect_request_sent(p, s, arc) ==
    LET fn == "state_layer_disconnect_request_sent" IN
    IF s.status = "PENDING" THEN SPURIOUS_WAKEUP_IF(p, s, fn)
    ELSE IF s.status # "OK" THEN RESET_ON_ERROR(p, s, fn)
    ELSE
        LET p1 == [ResetPayload(p)
                      EXCEPT !.state_func = "state_layer_disconnect_response_ready"]
        IN  IF arc # "OK" THEN RESET_ON_ERROR(p1, s, fn)
            ELSE Res(p1, Arm(s, "read", arc), "OK", Ev(p, fn))

\* lrc, lid: what the top layer's process_response returns and leaves in
\* current_request_id; arc: what socket_callback_when_read_done returns.
state_layer_disconnect_response_ready(p, s, lrc, lid, arc) ==
    LET fn == "state_layer_disconnect_response_ready"
        e == [Ev(p, fn) EXCEPT !.lrc = lrc]
    IN
    IF s.status = "PENDING" THEN SPURIOUS_WAKEUP_IF(p, s, fn)
    ELSE IF s.status # "OK" THEN RESET_ON_ERROR(p, s, fn)
    ELSE
        LET p1 == [p EXCEPT !.current_request_id = lid] IN
        IF lrc = "PARTIAL" THEN
            IF arc # "OK" THEN RESET_ON_ERROR(p1, s, fn)
            ELSE Res(p1, Arm(s, "read", arc), "OK", e)
        ELSE IF lrc \notin {"OK", "PENDING"} THEN RESET_ON_ERROR(p, s, fn)
        ELSE IF lrc = "PENDING" THEN
            Res(NEXT_STATE(p1, "state_build_layer_disconnect_request"), s,
                "PENDING", e)
        ELSE Res(Disconnected(p1), s, "OK", e)

state_terminate(p, s) == Res(p, s, "OK", Ev(p, "state_terminate"))

-----------------------------------------------------------------------------
(* The PLC mutex and the loop of plc_state_runner. *)

\* mutex_lock of a recursive mutex: a thread gets it when no other holds it.
critical_block(t) == mutex_owner \in {"none", t}

plc_state_runner_unlocked(t) == TRUE

\* plc_state_runner runs the state functions inside critical_block(plc_mutex).
plc_state_runner_lock(t) == critical_block(t)

\* What plc_start_request returns, rc being the status it computed.
plc_start_request_return(rc) == "OK"

\* The loop of plc_state_runner after a state function returned rc: it goes
\* on while rc is PENDING, and else leaves the critical block; the API call
\* that ran the loop returns.
Finish(t, rc) ==
    IF rc \in {"PENDING", "LOOP"}
    THEN /\ UNCHANGED <<running, mutex_owner, app_op>>
         /\ api_ret' = NoRet
    ELSE /\ running' = running \ {t}
         /\ mutex_owner' = IF mutex_owner = t THEN "none" ELSE mutex_owner
         /\ IF t = "app" /\ app_op.op # "none"
            THEN /\ api_ret' = [op |-> app_op.op, req |-> app_op.req,
                                rc |-> plc_start_request_return("OK"),
                                dup |-> FALSE]
                 /\ app_op' = NoOp
            ELSE /\ api_ret' = NoRet
                 /\ UNCHANGED app_op

\* Thread t runs the current state function, with result res.
Step(t, fn, res) ==
    /\ t \in running
    /\ plc.state_func = fn
    /\ life # "destroyed"
    /\ plc' = res.plc
    /\ sock' = res.sock
    /\ ev' = res.ev
    /\ bt' = res.bt
    /\ Finish(t, res.rc)
    /\ UNCHANGED <<now, life, hist, registry_vars>>

EnterRunner(t) ==
    /\ running' = running \cup {t}
    /\ mutex_owner' = t

-----------------------------------------------------------------------------
(* The state functions as actions. *)

\* The values an input is drawn from: S where the code reads the input, and
\* the single value d where it does not.
Input(read, S, d) == IF read THEN S ELSE {d}

DispatchRequests ==
    \E t \in running :
        Step(t, "state_dispatch_requests", state_dispatch_requests(plc, sock))

ReserveSpaceForTagRequest ==
    \E t \in running, lrc \in {"OK", "ERR"} :
    \E b \in Input(lrc = "OK", Bounds(plc.data_capacity), <<0, 0>>),
       id \in Input(lrc = "OK", ReqIds, 0) :
        Step(t, "state_reserve_space_for_tag_request",
             state_reserve_space_for_tag_request(plc, sock, lrc, b, id))

BuildTagRequest ==
    \E t \in running :
        LET loc == IF bt.active THEN bt ELSE BtEntry(plc) IN
        \E brc \in {"OK", "TOO_SMALL", "ERR"} :
        \E bend \in Input(brc = "OK", PayloadEnds(loc.data_start, loc.data_end),
                          loc.old_data_end),
           lrc \in Input(\/ brc = "OK"
                         \/ /\ brc = "TOO_SMALL"
                            /\ ~TooSmallOnFirstTry(brc, loc.first_try),
                         {"OK", "PENDING", "ERR"}, "ERR") :
        \E lb \in IF lrc = "OK"
                  THEN FrameBounds(loc.data_start, bend, plc.data_capacity)
                  ELSE IF lrc = "PENDING"
                  THEN NextWindow(bend, plc.data_capacity)
                  ELSE {<<0, 0>>},
           lid \in Input(lrc = "PENDING", ReqIds, 0),
           arc \in Input(lrc # "ERR", ArmRcs(sock, "write"), "ERR") :
            Step(t, "state_build_tag_request",
                 state_build_tag_request(plc, sock, loc, brc, bend, lrc, lb,
                                         lid, arc))

TagRequestSent ==
    \E t \in running, lrc \in Input(sock.status = "OK", {"OK", "ERR"}, "ERR") :
    \E arc \in Input(lrc = "OK", ArmRcs(sock, "read"), "ERR") :
        Step(t, "state_tag_request_sent",
             state_tag_request_sent(plc, sock, lrc, arc))

TagResponseReady ==
    \E t \in running,
       lrc \in Input(sock.status = "OK", {"OK", "PENDING", "PARTIAL", "ERR"},
                     "ERR") :
    \E lid \in Input(lrc = "OK", ReqIds, 0),
       arc \in Input(lrc = "PARTIAL", ArmRcs(sock, "read"), "ERR") :
    \E prc \in Input(lrc = "OK" /\ Matched(plc, lid) # 0, {"OK", "ERR"}, "OK") :
        Step(t, "state_tag_response_ready",
             state_tag_response_ready(plc, sock, lrc, lid, prc, arc))

StartConnect ==
    \E t \in running, crc \in Input(~sock.created, RcArm, "OK") :
    \E irc \in Input(crc = "OK", RcArm, "ERR") :
    \E arc \in Input(irc = "OK", ArmRcs(sock, "connect"), "ERR") :
        Step(t, "state_start_connect",
             state_start_connect(plc, sock, crc, irc, arc))

BuildLayerConnectRequest ==
    \E t \in running,
       lrc \in Input(sock.status = "OK", {"OK", "PENDING", "ERR"}, "ERR") :
    \E cb \in Input(lrc # "ERR", Bounds(plc.data_capacity), <<0, 0>>),
       blrc \in Input(lrc = "PENDING", RcArm, "ERR") :
    \E bb \in Input(blrc = "OK", FrameBounds(cb[1], cb[2], plc.data_capacity),
                    <<0, 0>>),
       bid \in Input(blrc = "OK", ReqIds, 0),
       arc \in Input(blrc = "OK", ArmRcs(sock, "write"), "ERR") :
        Step(t, "state_build_layer_connect_request",
             state_build_layer_connect_request(plc, sock, lrc, cb, blrc, bb,
                                               bid, arc))

LayerConnectRequestSent ==
    \E t \in running, arc \in Input(sock.status = "OK", ArmRcs(sock, "read"),
                                    "ERR") :
        Step(t, "state_layer_connect_request_sent",
             state_layer_connect_request_sent(plc, sock, arc))

LayerConnectResponseReady ==
    \E t \in running,
       lrc \in Input(sock.status = "OK",
                     {"OK", "PENDING", "PARTIAL", "RETRY", "ERR"}, "ERR") :
    \E lid \in Input(lrc \in {"OK", "PARTIAL", "RETRY"}, ReqIds, 0) :
        Step(t, "state_layer_connect_response_ready",
             state_layer_connect_response_ready(plc, sock, lrc, lid))

StartDisconnect ==
    \E t \in running :
        Step(t, "state_start_disconnect", state_start_disconnect(plc, sock))

BuildLayerDisconnectRequest ==
    \E t \in running, lrc \in {"OK", "PENDING", "ERR"} :
    \E blrc \in Input(lrc = "PENDING", RcArm, "ERR") :
    \E bb \in Input(blrc = "OK", Bounds(plc.data_capacity), <<0, 0>>),
       arc \in Input(blrc = "OK", ArmRcs(sock, "write"), "ERR") :
        Step(t, "state_build_layer_disconnect_request",
             state_build_layer_disconnect_request(plc, sock, lrc, blrc, bb,
                                                  arc))

LayerDisconnectRequestSent ==
    \E t \in running, arc \in Input(sock.status = "OK", ArmRcs(sock, "read"),
                                    "ERR") :
        Step(t, "state_layer_disconnect_request_sent",
             state_layer_disconnect_request_sent(plc, sock, arc))

LayerDisconnectResponseReady ==
    \E t \in running,
       lrc \in Input(sock.status = "OK", {"OK", "PENDING", "PARTIAL", "ERR"},
                     "ERR") :
    \E lid \in Input(lrc # "ERR", ReqIds, 0),
       arc \in Input(lrc = "PARTIAL", ArmRcs(sock, "read"), "ERR") :
        Step(t, "state_layer_disconnect_response_ready",
             state_layer_disconnect_response_ready(plc, sock, lrc, lid, arc))

Terminate ==
    \E t \in running :
        Step(t, "state_terminate", state_terminate(plc, sock))

-----------------------------------------------------------------------------
(* The entry points of the engine. *)

\* A socket completion: the socket records the status st of the operation
\* (and, for a read, the number n of bytes now in the buffer) and calls
\* plc_state_runner from the I/O thread.
SocketCallback ==
    \E st \in {"OK", "ERR"} :
    \E n \in IF sock.armed = "read" /\ st = "OK" THEN 0 .. plc.data_capacity
             ELSE {plc.payload_end} :
        /\ life # "destroyed"
        /\ sock.armed # "none"
        /\ "io" \notin running
        /\ plc_state_runner_lock("io")
        /\ sock' = [sock EXCEPT !.status = st, !.armed = "none"]
        /\ plc' = [plc EXCEPT !.payload_end = n]
        /\ EnterRunner("io")
        /\ ev' = NoEv
        /\ api_ret' = NoRet
        /\ UNCHANGED <<now, bt, app_op, life, hist, registry_vars>>

\* The callback called while the operation is still pending.
SpuriousWakeup ==
    /\ life # "destroyed"
    /\ sock.armed # "none"
    /\ "io" \notin running
    /\ plc_state_runner_lock("io")
    /\ EnterRunner("io")
    /\ ev' = NoEv
    /\ api_ret' = NoRet
    /\ UNCHANGED <<plc, sock, now, bt, app_op, life, hist, registry_vars>>

HeartbeatRunsAlways(p) == TRUE

\* "Only dispatch if we can."
HeartbeatRuns(p) == p.state_func = "state_dispatch_requests"

\* timer_event_wake_at: the timer that has just fired is set again.
RearmHeartbeat(p) == [p EXCEPT !.heartbeat_timer = TRUE]

\* The heartbeat fires while its timer is set; the timer is set again when
\* the callback returns, so it cannot fire while the callback is running.
plc_heartbeat ==
    /\ plc.heartbeat_timer
    /\ "timer" \notin running
    /\ critical_block("timer")
    /\ IF HeartbeatRuns(plc)
       THEN EnterRunner("timer")
       ELSE UNCHANGED <<running, mutex_owner>>
    /\ plc' = RearmHeartbeat(plc)
    /\ ev' = [NoEv EXCEPT !.kind = "heartbeat"]
    /\ api_ret' = NoRet
    /\ UNCHANGED <<sock, now, bt, app_op, life, hist, registry_vars>>

AlreadyQueuedHeadOnly(r, queue) == queue # <<>> /\ Head(queue) = r

\* The walk of plc_start_request over the queue: whether it finds r.
AlreadyQueued(r, queue) == InSeq(r, queue)

LinkKeepingReqId(p, r) == [p EXCEPT !.request_list = Append(@, r)]

\* The request is initialised and linked at the end of the list.
LinkRequest(p, r) ==
    [p EXCEPT !.request_list = Append(@, r),
              !.req_id[r] = INVALID_REQUEST_ID]

plc_start_request(r) ==
    /\ life = "live"
    /\ "app" \notin running
    /\ critical_block("app")
    /\ IF AlreadyQueued(r, plc.request_list)
       THEN /\ api_ret' = [op |-> "start", req |-> r,
                           rc |-> plc_start_request_return("BUSY"),
                           dup |-> TRUE]
            /\ UNCHANGED <<plc, running, mutex_owner, app_op, hist>>
       ELSE /\ plc' = LinkRequest(plc, r)
            /\ hist' = [hist EXCEPT !.stopped = @ \ {r}]
            /\ IF plc.state_func = "state_dispatch_requests"
               THEN /\ EnterRunner("app")
                    /\ app_op' = [op |-> "start", req |-> r]
                    /\ api_ret' = NoRet
               ELSE /\ api_ret' = [op |-> "start", req |-> r,
                                   rc |-> plc_start_request_return("OK"),
                                   dup |-> FALSE]
                    /\ UNCHANGED <<running, mutex_owner, app_op>>
    /\ ev' = NoEv
    /\ UNCHANGED <<sock, now, bt, life, registry_vars>>

StartRequest == \E r \in Requests : plc_start_request(r)

UnlinkNothing(r, queue) == queue

\* The queue after plc_stop_request(r).
Unlink(r, queue) == RemoveFirst(r, queue)

StopAlwaysOk(found) == "OK"

\* What plc_stop_request returns, found being whether its walk ended at the
\* request.
StopResult(found) == IF found THEN "OK" ELSE "NOT_FOUND"

plc_stop_request(r) ==
    /\ life = "live"
    /\ "app" \notin running
    /\ critical_block("app")
    /\ plc' = [plc EXCEPT !.request_list = Unlink(r, @)]
    /\ api_ret' = [op |-> "stop", req |-> r,
                   rc |-> StopResult(InSeq(r, plc.request_list)),
                   dup |-> FALSE]
    /\ IF InSeq(r, plc.request_list)
       THEN hist' = [hist EXCEPT !.stopped = @ \cup {r}]
       ELSE UNCHANGED hist
    /\ ev' = NoEv
    /\ UNCHANGED <<sock, now, mutex_owner, running, bt, app_op, life,
                   registry_vars>>

StopRequest == \E r \in Requests : plc_stop_request(r)

plc_initialize ==
    /\ life = "live"
    /\ "app" \notin running
    /\ critical_block("app")
    /\ plc' = reset_plc(plc, sock).plc
    /\ sock' = reset_plc(plc, sock).sock
    /\ api_ret' = [op |-> "initialize", req |-> 0, rc |-> "OK", dup |-> FALSE]
    /\ ev' = NoEv
    /\ UNCHANGED <<now, mutex_owner, running, bt, app_op, life, hist,
                   registry_vars>>

ResizeNever(p, buffer_size, mrc) == p

\* "only resize up for now": mrc is whether mem_realloc gave the memory.
Resize(p, buffer_size, mrc) ==
    IF buffer_size > p.data_capacity /\ mrc = "OK"
    THEN [p EXCEPT !.data_capacity = buffer_size]
    ELSE p

\* In api_ret, req is the size asked for.
plc_set_buffer_size(buffer_size, mrc) ==
    /\ life = "live"
    /\ "app" \notin running
    /\ critical_block("app")
    /\ IF buffer_size <= 0
       THEN /\ api_ret' = [op |-> "set_buffer_size", req |-> buffer_size,
                           rc |-> "TOO_SMALL", dup |-> FALSE]
            /\ UNCHANGED plc
       ELSE /\ api_ret' = [op |-> "set_buffer_size", req |-> buffer_size,
                           rc |-> IF buffer_size > plc.data_capacity
                                  THEN mrc ELSE "OK",
                           dup |-> FALSE]
            /\ plc' = Resize(plc, buffer_size, mrc)
    /\ ev' = NoEv
    /\ UNCHANGED <<sock, now, mutex_owner, running, bt, app_op, life, hist,
                   registry_vars>>

SetBufferSize ==
    \E n \in -1 .. MaxCap :
    \E mrc \in Input(n > plc.data_capacity, {"OK", "NO_MEM"}, "OK") :
        plc_set_buffer_size(n, mrc)

\* In api_ret, req is the value the call returns.
plc_get_buffer_size ==
    /\ life = "live"
    /\ "app" \notin running
    /\ critical_block("app")
    /\ api_ret' = [op |-> "get_buffer_size", req |-> plc.payload_end,
                   rc |-> "OK", dup |-> FALSE]
    /\ ev' = NoEv
    /\ UNCHANGED <<plc, sock, now, mutex_owner, running, bt, app_op, life,
                   hist, registry_vars>>

HeartbeatLeftRunning(p) == p

\* "stop the heartbeat": the timer is snoozed and destroyed.
StopHeartbeat(p) == [p EXCEPT !.heartbeat_timer = FALSE]

\* "remove it from the list."
RemoveFromList(p) == [p EXCEPT !.in_plc_list = FALSE]

\* plc_rc_destroy up to its call of plc_state_runner (plc.c:704-756).
plc_rc_destroy_begin ==
    /\ life = "live"
    /\ "app" \notin running
    /\ critical_block("app")
    /\ life' = "terminating"
    /\ plc' = [StopHeartbeat(RemoveFromList(plc)) EXCEPT !.is_terminating = TRUE]
    /\ IF plc.is_connected
       THEN /\ EnterRunner("app")
            /\ app_op' = [op |-> "destroy", req |-> 0]
       ELSE UNCHANGED <<running, mutex_owner, app_op>>
    /\ ev' = NoEv
    /\ api_ret' = NoRet
    /\ UNCHANGED <<sock, now, bt, hist, registry_vars>>

\* plc_rc_destroy after its wait for the disconnect (plc.c:758-830). The wait
\* ends when the PLC is disconnected or the timeout has passed, and reset_plc
\* and the frees that follow are outside the mutex: they do not wait for a
\* thread that is inside plc_state_runner. Nothing of the PLC is used after.
plc_rc_destroy_end ==
    /\ life = "terminating"
    /\ "app" \notin running
    /\ life' = "destroyed"
    /\ plc' = [reset_plc(plc, sock).plc EXCEPT !.request_list = <<>>]
    /\ sock' = [reset_plc(plc, sock).sock EXCEPT !.created = FALSE]
    /\ ev' = NoEv
    /\ api_ret' = [op |-> "destroy", req |-> 0, rc |-> "OK", dup |-> FALSE]
    /\ UNCHANGED <<now, mutex_owner, running, bt, app_op, hist, registry_vars>>

\* The clock advances.
Tick ==
    /\ now < MaxNow
    /\ now' = now + 1
    /\ ev' = NoEv
    /\ api_ret' = NoRet
    /\ UNCHANGED <<plc, sock, mutex_owner, running, bt, app_op, life, hist,
                   registry_vars>>

-----------------------------------------------------------------------------
(* The registry of plc_get. *)

Keys == {"ab/h1/p", "AB/H1/P", "ab/h2/p"}

PlcIds == 1 .. MaxPlcs

Lower(k) == IF k = "AB/H1/P" THEN "ab/h1/p" ELSE k

\* str_cmp_i: 0 when the strings are equal up to case.
str_cmp_i(a, b) == IF Lower(a) = Lower(b) THEN 0 ELSE 1

\* The loop of plc_get over plc_list (plc.c:247-252): the PLC it stops at,
\* or 0 (NULL) when it runs off the end.
RECURSIVE Lookup(_, _)
Lookup(plc_key, list) ==
    IF list = <<>> THEN 0
    ELSE IF str_cmp_i(plc_key, reg.key[Head(list)]) # 0 THEN Head(list)
    ELSE Lookup(plc_key, Tail(list))

Allocated == {i \in PlcIds : reg.refs[i] > 0}

\* The values of the idle_timeout_ms attribute and of the argument of
\* plc_set_idle_timeout: the default and the values just outside the range.
IdleTimeouts == {-1, DEFAULT_IDLE_TIMEOUT_MS, DEFAULT_IDLE_TIMEOUT_MS + 1}

\* plc_get for the key plc_key; made: whether a new PLC can be constructed;
\* idle_timeout_ms: what attr_get_int gives for the attribute of that name.
plc_get(plc_key, made, idle_timeout_ms) ==
    LET found == Lookup(plc_key, reg.list) IN
    /\ IF found # 0
       THEN /\ reg.refs[found] < MaxPlcs
            /\ reg' = [reg EXCEPT !.refs[found] = @ + 1]
            /\ get_ret' = [rc |-> "OK", plc |-> found, key |-> plc_key,
                           made |-> FALSE]
       ELSE IF made /\ Allocated # PlcIds
       THEN LET new == CHOOSE i \in PlcIds \ Allocated :
                           \A j \in PlcIds \ Allocated : i <= j
            IN  /\ reg' = [reg EXCEPT !.refs[new] = 1, !.key[new] = plc_key,
                                      !.idle_timeout_ms[new] = idle_timeout_ms,
                                      !.list = <<new>> \o @]
                /\ get_ret' = [rc |-> "OK", plc |-> new, key |-> plc_key,
                               made |-> TRUE]
       ELSE /\ get_ret' = [rc |-> "ERR", plc |-> 0, key |-> plc_key,
                           made |-> FALSE]
            /\ UNCHANGED reg
    /\ UNCHANGED engine_vars

PlcGet ==
    \E k \in Keys, made \in BOOLEAN :
    \E idle \in Input(made /\ Lookup(k, reg.list) = 0 /\ Allocated # PlcIds,
                      IdleTimeouts, DEFAULT_IDLE_TIMEOUT_MS) :
        plc_get(k, made, idle)

\* The range test of plc_set_idle_timeout.
IdleTimeoutIllegal(timeout_ms) == timeout_ms < 0 \/ timeout_ms > 5000

\* plc_set_idle_timeout on PLC i.  The call returns the previous value, not
\* a status, when it accepts the new one.
plc_set_idle_timeout(i, timeout_ms) ==
    /\ reg.refs[i] > 0
    /\ IF IdleTimeoutIllegal(timeout_ms)
       THEN /\ get_ret' = [rc |-> "OUT_OF_BOUNDS", plc |-> i, key |-> "",
                           made |-> FALSE]
            /\ UNCHANGED reg
       ELSE /\ get_ret' = [rc |-> "PREVIOUS_VALUE", plc |-> i, key |-> "",
                           made |-> FALSE]
            /\ reg' = [reg EXCEPT !.idle_timeout_ms[i] = timeout_ms]
    /\ UNCHANGED engine_vars

PlcSetIdleTimeout ==
    \E i \in PlcIds, timeout_ms \in IdleTimeouts :
        plc_set_idle_timeout(i, timeout_ms)

\* rc_dec of a reference to PLC i; the last one runs plc_rc_destroy, which
\* unlinks the PLC from plc_list (plc.c:716-729).
plc_release(i) ==
    /\ reg.refs[i] > 0
    /\ reg' = IF reg.refs[i] = 1
              THEN [reg EXCEPT !.refs[i] = 0, !.key[i] = "",
                               !.idle_timeout_ms[i] = DEFAULT_IDLE_TIMEOUT_MS,
                               !.list = RemoveFirst(i, @)]
              ELSE [reg EXCEPT !.refs[i] = @ - 1]
    /\ get_ret' = [rc |-> "OK", plc |-> 0, key |-> "", made |-> FALSE]
    /\ UNCHANGED engine_vars

PlcRelease == \E i \in PlcIds : plc_release(i)

-----------------------------------------------------------------------------
(* The specifications. *)

Init ==
    /\ plc = [state_func |-> "state_dispatch_requests",
              is_connected |-> FALSE, is_terminating |-> FALSE,
              request_list |-> <<>>,
              req_id |-> [r \in Requests |-> INVALID_REQUEST_ID],
              current_request_id |-> 0,
              data_capacity |-> MaxCap - 1,
              payload_start |-> 0, payload_end |-> 0,
              retry_interval_ms |-> 0, next_retry_time |-> 0,
              idle_timeout_ms |-> DEFAULT_IDLE_TIMEOUT_MS,
              next_idle_timeout |-> 0,
              heartbeat_timer |-> TRUE,
              in_plc_list |-> TRUE]
    /\ sock = [created |-> FALSE, open |-> FALSE, status |-> "OK",
               armed |-> "none"]
    /\ now = 0
    /\ mutex_owner = "none"
    /\ running = {}
    /\ bt = NoBt
    /\ app_op = NoOp
    /\ api_ret = NoRet
    /\ ev = NoEv
    /\ life = "live"
    /\ hist = [stopped |-> {}]
    /\ reg = [list |-> <<>>, key |-> [i \in PlcIds |-> ""],
              refs |-> [i \in PlcIds |-> 0],
              idle_timeout_ms |-> [i \in PlcIds |-> DEFAULT_IDLE_TIMEOUT_MS]]
    /\ get_ret = [rc |-> "OK", plc |-> 0, key |-> "", made |-> FALSE]

Next ==
    \/ DispatchRequests
    \/ ReserveSpaceForTagRequest
    \/ BuildTagRequest
    \/ TagRequestSent
    \/ TagResponseReady
    \/ StartConnect
    \/ BuildLayerConnectRequest
    \/ LayerConnectRequestSent
    \/ LayerConnectResponseReady
    \/ StartDisconnect
    \/ BuildLayerDisconnectRequest
    \/ LayerDisconnectRequestSent
    \/ LayerDisconnectResponseReady
    \/ Terminate
    \/ SocketCallback
    \/ SpuriousWakeup
    \/ plc_heartbeat
    \/ StartRequest
    \/ StopRequest
    \/ plc_initialize
    \/ SetBufferSize
    \/ plc_rc_destroy_begin
    \/ plc_rc_destroy_end
    \/ Tick

Spec == Init /\ [][Next]_vars

RegNext == PlcGet \/ PlcRelease \/ PlcSetIdleTimeout

RegSpec == Init /\ [][RegNext]_vars

\* The packing loop alone: a connected PLC whose engine has reserved space
\* and is about to run state_build_tag_request with MaxPacked requests in the
\* queue, none of them built yet.
PackInit ==
    /\ \E b \in Bounds(MaxCap), id \in ReqIds :
        plc = [state_func |-> "state_build_tag_request",
               is_connected |-> TRUE, is_terminating |-> FALSE,
               request_list |-> [i \in 1 .. MaxPacked |-> i],
               req_id |-> [r \in 1 .. MaxPacked |-> INVALID_REQUEST_ID],
               current_request_id |-> id,
               data_capacity |-> MaxCap,
               payload_start |-> b[1], payload_end |-> b[2],
               retry_interval_ms |-> 0, next_retry_time |-> 0,
               idle_timeout_ms |-> DEFAULT_IDLE_TIMEOUT_MS,
               next_idle_timeout |-> 0,
               heartbeat_timer |-> TRUE,
               in_plc_list |-> TRUE]
    /\ sock = [created |-> TRUE, open |-> TRUE, status |-> "OK",
               armed |-> "none"]
    /\ now = 0
    /\ mutex_owner = "io"
    /\ running = {"io"}
    /\ bt = NoBt
    /\ app_op = NoOp
    /\ api_ret = NoRet
    /\ ev = NoEv
    /\ life = "live"
    /\ hist = [stopped |-> {}]
    /\ reg = [list |-> <<>>, key |-> [i \in PlcIds |-> ""],
              refs |-> [i \in PlcIds |-> 0],
              idle_timeout_ms |-> [i \in PlcIds |-> DEFAULT_IDLE_TIMEOUT_MS]]
    /\ get_ret = [rc |-> "OK", plc |-> 0, key |-> "", made |-> FALSE]

PackNext == BuildTagRequest

PackSpec == PackInit /\ [][PackNext]_vars

\* The dispatcher alone, entered with any retry time: next_retry_time is
\* computed from time_ms() by the error macros and compared with
\* event_loop_time() by the dispatcher, so it is taken from the whole range
\* of the clock and one step beyond, on a PLC that is connected or not.
GateInit ==
    /\ \E t \in 0 .. MaxNow + 1, c \in BOOLEAN :
        /\ plc = [state_func |-> "state_dispatch_requests",
                  is_connected |-> c, is_terminating |-> FALSE,
                  request_list |-> <<>>,
                  req_id |-> [r \in Requests |-> INVALID_REQUEST_ID],
                  current_request_id |-> 0,
                  data_capacity |-> MaxCap - 1,
                  payload_start |-> 0, payload_end |-> 0,
                  retry_interval_ms |-> 0, next_retry_time |-> t,
                  idle_timeout_ms |-> DEFAULT_IDLE_TIMEOUT_MS,
                  next_idle_timeout |-> 0,
                  heartbeat_timer |-> TRUE,
                  in_plc_list |-> TRUE]
        /\ sock = [created |-> c, open |-> c, status |-> "OK",
                   armed |-> "none"]
    /\ now = 0
    /\ mutex_owner = "none"
    /\ running = {}
    /\ bt = NoBt
    /\ app_op = NoOp
    /\ api_ret = NoRet
    /\ ev = NoEv
    /\ life = "live"
    /\ hist = [stopped |-> {}]
    /\ reg = [list |-> <<>>, key |-> [i \in PlcIds |-> ""],
              refs |-> [i \in PlcIds |-> 0],
              idle_timeout_ms |-> [i \in PlcIds |-> DEFAULT_IDLE_TIMEOUT_MS]]
    /\ get_ret = [rc |-> "OK", plc |-> 0, key |-> "", made |-> FALSE]

GateNext ==
    \/ DispatchRequests
    \/ StartConnect
    \/ StartDisconnect
    \/ plc_heartbeat
    \/ StartRequest
    \/ StopRequest
    \/ Tick

GateSpec == GateInit /\ [][GateNext]_vars

\* The buffer size calls of the application, with the engine taking a PLC
\* through its connect and into the packing of a request, so that the calls
\* meet the payload markers the layers leave.
BufNext ==
    \/ SetBufferSize
    \/ plc_get_buffer_size
    \/ StartRequest
    \/ DispatchRequests
    \/ StartConnect
    \/ BuildLayerConnectRequest
    \/ ReserveSpaceForTagRequest
    \/ StartDisconnect
    \/ SocketCallback

BufSpec == Init /\ [][BufNext]_vars

\* The engine with the events its scheduling delivers: the clock advances,
\* the heartbeat fires, socket completions arrive, and a thread inside
\* plc_state_runner goes on running state functions.
EngineStep ==
    \/ DispatchRequests
    \/ ReserveSpaceForTagRequest
    \/ BuildTagRequest
    \/ TagRequestSent
    \/ TagResponseReady
    \/ StartConnect
    \/ BuildLayerConnectRequest
    \/ LayerConnectRequestSent
    \/ LayerConnectResponseReady
    \/ StartDisconnect
    \/ BuildLayerDisconnectRequest
    \/ LayerDisconnectRequestSent
    \/ LayerDisconnectResponseReady
    \/ Terminate

\* The runs the liveness of the engine is judged on: requests are started and
\* stopped, the PLC may be destroyed, and nothing else is done to it.
FairNext ==
    \/ EngineStep
    \/ SocketCallback
    \/ SpuriousWakeup
    \/ plc_heartbeat
    \/ StartRequest
    \/ StopRequest
    \/ plc_rc_destroy_begin
    \/ plc_rc_destroy_end
    \/ Tick

\* The timer thread re-arms the heartbeat unconditionally, the socket delivers
\* the completions it was armed for (spurious wakeups do not hold them back
\* for ever), a thread inside plc_state_runner goes on, and the wait in
\* plc_rc_destroy is bounded by its timeout.
FairSpec ==
    /\ Init
    /\ [][FairNext]_vars
    /\ WF_vars(EngineStep)
    /\ SF_vars(SocketCallback)
    /\ WF_vars(plc_heartbeat)
    /\ WF_vars(plc_rc_destroy_end)
    /\ WF_vars(Tick)

-----------------------------------------------------------------------------
(* The claims. *)

Queue == plc.request_list

\* C1: at most one thread at a time runs state functions (and with them the
\* request callbacks) of the PLC, and that thread holds the PLC's mutex,
\* whichever of the entry points the threads come through.
C1_OneThreadInStateMachine ==
    /\ Cardinality(running) <= 1
    /\ \A t \in running : mutex_owner = t

\* C1 witness: a thread is inside the state machine while a socket completion
\* is due, so the I/O thread's plc_state_runner has to wait for the mutex.
C1_Witness ==
    /\ running # {}
    /\ "io" \notin running
    /\ sock.armed # "none"

\* The request's build_request has been invoked: the packing loop has given
\* it a req_id, or did so in the step just taken.
Built(r) == plc.req_id[r] # INVALID_REQUEST_ID \/ InSeq(r, ev.built)

\* No error is being handled and no layer asks for more data or a retry: the
\* PLC and the network behave.
Healthy == ev.err = "none" /\ ev.lrc \notin {"PARTIAL", "RETRY", "PENDING"}

\* C2: every queued request eventually gets its response delivered or is
\* removed by plc_stop_request (it leaves the queue), or has been built when
\* the engine disconnects on an error. Stated for the runs in which the PLC
\* and the network behave throughout, where the engine alone decides it.
C2_EveryRequestSeesAnEvent ==
    []Healthy =>
        \A r \in Requests :
            InSeq(r, Queue) ~>
                (~InSeq(r, Queue) \/ (ev.err = "disconnect" /\ Built(r)))

\* C3: no request is in the queue more than once, and when plc_start_request
\* returns ok its request is in the queue exactly once.
C3_QueuedOnce ==
    /\ \A r \in Requests : Count(r, Queue) <= 1
    /\ (api_ret.op = "start" /\ api_ret.rc = "OK")
           => Count(api_ret.req, Queue) = 1

\* C3 witness: plc_start_request returned ok for a request it linked behind
\* another one.
C3_Witness ==
    /\ api_ret.op = "start"
    /\ ~api_ret.dup
    /\ Len(Queue) = 2
    /\ Queue[2] = api_ret.req

\* C4: plc_start_request with a request that is already queued returns busy.
C4_DuplicateReturnsBusy ==
    (api_ret.op = "start" /\ api_ret.dup) => api_ret.rc = "BUSY"

C6_StoppedGetsNoResponse ==
    \A r \in hist.stopped : ~InSeq(r, Queue) /\ ev.delivered # r

\* C6 witness: a complete response arrives when every request of its frame
\* has been stopped; it is dropped.
C6_Witness ==
    /\ ev.fn = "state_tag_response_ready"
    /\ ev.lrc = "OK"
    /\ ev.head = 0
    /\ ev.delivered = 0
    /\ \E r \in hist.stopped : plc.req_id[r] # INVALID_REQUEST_ID

\* C7: when the layer's process_response returns pending (more sub-responses
\* remain in the buffer), tag_resp_ready delivers the response and goes on
\* with the next one: it is no error.
C7_PendingMeansMoreResponses ==
    (ev.fn = "state_tag_response_ready" /\ ev.lrc = "PENDING")
        => (ev.err = "none" /\ ev.delivered # 0)

\* C8: after an error handled by DISCONNECT_ON_ERROR or RESET_ON_ERROR,
\* retry_interval_ms is within [1000, 16000].
C8_RetryIntervalInRange ==
    ev.err # "none"
        => /\ plc.retry_interval_ms >= MIN_RETRY_INTERVAL_MS
           /\ plc.retry_interval_ms <= MAX_RETRY_INTERVAL_MS

\* C9: whenever a state function has returned, payload_start <= payload_end
\* <= data_capacity.
C9_MarkersInOrder ==
    ~bt.active
        => /\ 0 <= plc.payload_start
           /\ plc.payload_start <= plc.payload_end
           /\ plc.payload_end <= plc.data_capacity

\* C9 witness: a tag request frame was sent with the payload start that
\* reserve_space left after a header.
C9_Witness ==
    /\ ev.fn = "state_build_tag_request"
    /\ ev.sent # <<>>
    /\ plc.payload_start > 0

\* C10: no two PLCs of the registry have the same key.
C10_OnePlcPerKey ==
    \A i, j \in 1 .. Len(reg.list) :
        i # j => str_cmp_i(reg.key[reg.list[i]], reg.key[reg.list[j]]) # 0

\* C11: when plc_get returns ok, the key of the PLC it returns is the key
\* built from the call's arguments.
C11_ReturnedPlcHasTheKey ==
    (get_ret.rc = "OK" /\ get_ret.plc # 0)
        => str_cmp_i(get_ret.key, reg.key[get_ret.plc]) = 0

\* C12: once the top layer's process_response has returned ok on the
\* response to the connect handshake, the PLC is connected and the engine is
\* back in dispatch.
C12_ConnectedAfterOneRoundTrip ==
    (/\ ev.fn = "state_layer_connect_response_ready"
     /\ ev.lrc = "OK"
     /\ ev.err = "none")
        => (plc.is_connected /\ plc.state_func = "state_dispatch_requests")

\* C13: each successfully processed request sets next_idle_timeout to
\* now + idle_timeout_ms.
C13_SuccessMovesIdleTimeout ==
    (/\ ev.fn = "state_tag_response_ready"
     /\ ev.delivered # 0
     /\ ev.err = "none")
        => plc.next_idle_timeout = now + plc.idle_timeout_ms

\* C15: when a disconnect completes (the top layer's disconnect returned ok,
\* or the last disconnect response was processed with no layer pending), the
\* engine's state is dispatch again.
C15_DisconnectEndsInDispatch ==
    (\/ /\ ev.fn = "state_build_layer_disconnect_request"
        /\ ev.err = "none"
        /\ sock.armed # "write"
     \/ /\ ev.fn = "state_layer_disconnect_response_ready"
        /\ ev.lrc = "OK"
        /\ ev.err = "none")
        => plc.state_func = "state_dispatch_requests"

\* C14: a connected PLC whose idle timeout has expired is sent from dispatch
\* to start_disconnect by the next run of the state machine, and a live PLC
\* found idle and expired in dispatch with an empty queue is eventually not
\* connected, provided the layer's disconnect handshake, once its response
\* has arrived, asks for no further frame.
IdleAndExpired ==
    /\ life = "live"
    /\ plc.state_func = "state_dispatch_requests"
    /\ plc.is_connected
    /\ Queue = <<>>
    /\ plc.next_idle_timeout < now

DisconnectTakesOneRoundTrip ==
    ~(/\ ev.fn = "state_layer_disconnect_response_ready"
      /\ ev.lrc \in {"PARTIAL", "PENDING"})

FirstRequestTooSmall ==
    /\ ev.fn = "state_build_tag_request"
    /\ ev.brc = "TOO_SMALL"
    /\ Len(ev.built) = 1

C16_TooSmallFirstRequest ==
    [][FirstRequestTooSmall'
        => /\ plc'.state_func = "state_start_disconnect"
           /\ plc'.retry_interval_ms =
                  IF 2 * plc.retry_interval_ms > MAX_RETRY_INTERVAL_MS
                  THEN MAX_RETRY_INTERVAL_MS
                  ELSE 2 * plc.retry_interval_ms
           /\ plc'.next_retry_time = now + plc'.retry_interval_ms
           /\ ev'.sent = <<>>
           /\ sock' = sock]_vars

C16_Witness ==
    /\ FirstRequestTooSmall
    /\ ev.err = "disconnect"
    /\ plc.state_func = "state_start_disconnect"
    /\ sock.armed = "none"

\* C17: when the layer's process_response returns partial in
\* state_tag_response_ready and the read is armed again, the engine stays in
\* that state with the read armed and yields, removes no request and invokes
\* no callback; when a later completion parses in full with the id of the
\* head request, that request's process_response is invoked, once, and the
\* request leaves the queue.
PartialResponse ==
    /\ ev.fn = "state_tag_response_ready"
    /\ ev.lrc = "PARTIAL"
    /\ ev.err = "none"

FullResponseForHead ==
    /\ ev'.fn = "state_tag_response_ready"
    /\ ev'.lrc = "OK"
    /\ Queue # <<>>
    /\ ev'.lid = plc.req_id[Head(Queue)]

C17_PartialResponseWaits ==
    /\ [][PartialResponse'
            => /\ plc'.state_func = "state_tag_response_ready"
               /\ sock'.armed = "read"
               /\ Queue' = Queue
               /\ ev'.delivered = 0
               /\ running' # running
               /\ mutex_owner' = "none"]_vars
    /\ [][FullResponseForHead
            => /\ ev'.delivered = Head(Queue)
               /\ Queue' = Tail(Queue)
               /\ Count(Head(Queue), Queue') = 0]_vars

C17_Witness ==
    /\ PartialResponse
    /\ Queue # <<>>
    /\ plc.req_id[Head(Queue)] # INVALID_REQUEST_ID
    /\ sock.armed = "read"
    /\ running = {}

\* C18: from the moment plc_rc_destroy has set is_terminating, the heartbeat
\* timer is stopped, no heartbeat runs and the PLC is not in the registry
\* list; a terminating connected PLC goes from dispatch to start_disconnect
\* and from there to the disconnect states; and when destruction has ended
\* the PLC is not connected and its socket is destroyed.
C18_DestroyWhileConnected ==
    /\ [](life # "live"
            => /\ plc.is_terminating
               /\ ~plc.heartbeat_timer
               /\ ~plc.in_plc_list
               /\ "timer" \notin running
               /\ ev.kind # "heartbeat")
    /\ [][(/\ ev'.fn = "state_dispatch_requests"
           /\ plc.is_terminating
           /\ plc.is_connected)
            => plc'.state_func = "state_start_disconnect"]_vars
    /\ [][(/\ ev'.fn = "state_start_disconnect"
           /\ plc.is_terminating
           /\ plc.is_connected)
            => plc'.state_func = "state_build_layer_disconnect_request"]_vars
    /\ [](life = "destroyed"
            => /\ ~plc.is_connected
               /\ ~sock.created
               /\ ~sock.open
               /\ sock.armed = "none")

C18_Witness ==
    /\ life = "terminating"
    /\ api_ret.op = "destroy"
    /\ ev.fn = "state_build_layer_disconnect_request"
    /\ ev.err = "none"
    /\ ~plc.is_connected
    /\ Queue = <<>>
    /\ hist.stopped = {}

\* C20: a heartbeat enters the state machine only when the state is
\* dispatch; a heartbeat that finds another state leaves the state, the
\* queue, the flags, the markers, the socket and the running threads as they
\* are; and in both cases its timer is set again, so that a live PLC always
\* has its heartbeat timer set.
Heartbeat == ev'.kind = "heartbeat"

Idle ==
    /\ life = "live"
    /\ plc.state_func = "state_dispatch_requests"
    /\ Queue = <<>>
    /\ sock.armed = "none"
    /\ running = {}

Initialized == api_ret'.op = "initialize"

C19_InitializeIsAHardReset ==
    [][(Initialized /\ Idle)
        => /\ plc' = [plc EXCEPT !.is_connected = FALSE]
           /\ sock' = [sock EXCEPT !.open = FALSE]
           /\ running' = running
           /\ mutex_owner' = mutex_owner
           /\ bt' = bt
           /\ reset_plc(plc', sock') = [plc |-> plc', sock |-> sock']]_vars

C19_Witness ==
    /\ api_ret.op = "initialize"
    /\ Idle
    /\ sock.created
    /\ ~sock.open
    /\ ~plc.is_connected

\* C19 as the specification states it: with and without the call, an idle
\* PLC has the same engine state, the same is_connected and the same queue.
C19_InitializeIsNotObservable ==
    [][(Initialized /\ Idle)
        => /\ plc'.state_func = plc.state_func
           /\ plc'.is_connected = plc.is_connected
           /\ Queue' = Queue]_vars

\* C21: the buffer capacity never decreases.  plc_set_buffer_size with a
\* non-positive size returns too_small and changes nothing; with a size the
\* capacity covers it returns ok and changes nothing; with a larger size it
\* makes the capacity exactly that size, unless the memory cannot be had,
\* and then the capacity stays.  No state function changes the capacity.
BufferSizeSet == api_ret'.op = "set_buffer_size"

C22_IdleTimeoutInRange ==
    \A i \in Allocated : reg.idle_timeout_ms[i] \in 0 .. 5000

\* C23: a failure in one of the disconnect states is a hard reset: the step
\* closes the socket, leaves the PLC not connected, doubles the retry
\* interval up to its maximum and sets next_retry_time from it, puts the
\* engine in dispatch and yields.  A disconnect state never sends the engine
\* to start_disconnect, and a socket error met in one always ends so.
DisconnectStates ==
    {"state_build_layer_disconnect_request",
     "state_layer_disconnect_request_sent",
     "state_layer_disconnect_response_ready"}

C23_HardReset ==
    /\ [][(ev'.err = "reset" /\ ev'.fn \in DisconnectStates)
            => /\ ~plc'.is_connected
               /\ ~sock'.open
               /\ sock'.armed = "none"
               /\ plc'.retry_interval_ms =
                      IF 2 * plc.retry_interval_ms > MAX_RETRY_INTERVAL_MS
                      THEN MAX_RETRY_INTERVAL_MS
                      ELSE 2 * plc.retry_interval_ms
               /\ plc'.next_retry_time = now + plc'.retry_interval_ms
               /\ plc'.state_func = "state_dispatch_requests"
               /\ Queue' = Queue
               /\ running' # running
               /\ mutex_owner' = "none"]_vars
    /\ [][ev'.fn \in DisconnectStates
            => /\ ev'.err # "disconnect"
               /\ plc'.state_func # "state_start_disconnect"]_vars
    /\ [][(/\ ev'.fn \in DisconnectStates
           /\ ev'.fn # "state_build_layer_disconnect_request"
           /\ sock.status = "ERR")
            => ev'.err = "reset"]_vars

C23_Witness ==
    /\ ev.err = "reset"
    /\ ev.fn = "state_layer_disconnect_response_ready"
    /\ ev.lrc = "-"
    /\ plc.state_func = "state_dispatch_requests"
    /\ sock.created
    /\ Queue # <<>>

\* C24: an error in a state of the send/receive subgraph sets next_retry_time
\* from the doubled retry interval and sends the engine to start_disconnect
\* at once, with the unanswered requests still queued, and the engine of a
\* live PLC is afterwards in dispatch again.
SendReceiveStates ==
    {"state_reserve_space_for_tag_request", "state_build_tag_request",
     "state_tag_request_sent", "state_tag_response_ready"}

DisconnectOnError == ev.err = "disconnect" /\ ev.fn \in SendReceiveStates

C24_DisconnectAndBackOff ==
    /\ [][DisconnectOnError'
            => /\ plc'.state_func = "state_start_disconnect"
               /\ plc'.next_retry_time = now + plc'.retry_interval_ms
               /\ running' = running
               /\ Queue' = IF ev'.delivered # 0 THEN Tail(Queue) ELSE Queue]_vars
    /\ ([]DisconnectTakesOneRoundTrip /\ [](life = "live"))
        => (DisconnectOnError ~> plc.state_func = "state_dispatch_requests")

\* C25: is_connected is false initially; it becomes true only in the step of
\* state_build_layer_connect_request in which the connect attempt completes;
\* it is false after every reset_plc (hard reset, plc_initialize, the end of
\* plc_rc_destroy) and after a disconnect has completed; and nothing else
\* makes it false.
ConnectCompletes ==
    /\ ev'.fn = "state_build_layer_connect_request"
    /\ ev'.err = "none"
    /\ plc'.state_func = "state_dispatch_requests"

DisconnectCompletes ==
    \/ /\ ev'.fn = "state_build_layer_disconnect_request"
       /\ ev'.err = "none"
       /\ sock'.armed # "write"
    \/ /\ ev'.fn = "state_layer_disconnect_response_ready"
       /\ ev'.lrc = "OK"
       /\ ev'.err = "none"

ResetPlc ==
    \/ ev'.err = "reset"
    \/ api_ret'.op = "initialize"
    \/ life' = "destroyed"

C26_ReqIdOnlyAfterBuild ==
    /\ [][\A r \in Requests :
            (InSeq(r, Queue') /\ ~InSeq(r, Queue))
                => plc'.req_id[r] = INVALID_REQUEST_ID]_vars
    /\ [][\A r \in Requests :
            (plc'.req_id[r] # plc.req_id[r]
                /\ plc'.req_id[r] # INVALID_REQUEST_ID)
                => /\ ev'.fn = "state_build_tag_request"
                   /\ InSeq(r, ev'.built)
                   /\ InSeq(r, Queue)
                   /\ plc'.req_id[r] >= 0]_vars

C26_Witness ==
    /\ api_ret.op = "start"
    /\ ~api_ret.dup
    /\ Len(Queue) = 2
    /\ plc.req_id[Queue[1]] # INVALID_REQUEST_ID
    /\ plc.req_id[Queue[2]] = INVALID_REQUEST_ID
    /\ ~plc.is_connected

\* C27: when, after at least one request has been packed, the build_request
\* of a later request returns too_small, the engine packs no further request:
\* it sends the frame with the requests packed so far, and the request that
\* did not fit stays in the queue.
LaterRequestTooSmall ==
    /\ ev.fn = "state_build_tag_request"
    /\ ev.brc = "TOO_SMALL"
    /\ ev.err = "none"
    /\ Len(ev.built) > 1

C27_TooSmallEndsThePacking ==
    [][LaterRequestTooSmall'
        => /\ ~bt'.active
           /\ plc'.state_func = "state_tag_request_sent"
           /\ ev'.sent = bt.packed
           /\ Queue' = Queue]_vars

\* C28: a request whose build_request returned too_small keeps the req_id it
\* had; only a request whose build_request returned ok has the frame's
\* req_id recorded on it.
C28_ReqIdOnlyOnPackedRequests ==
    [][(ev'.fn = "state_build_tag_request" /\ ev'.brc = "TOO_SMALL")
        => plc'.req_id = plc.req_id]_vars

\* C29: a complete response whose id is the req_id of the head of the queue
\* removes the head and invokes its process_response; a complete response
\* with another id, the queue not being empty, invokes no callback, leaves
\* the queue as it is and takes the engine back to dispatch.
CompleteResponse ==
    /\ ev'.fn = "state_tag_response_ready"
    /\ ev'.lrc = "OK"
    /\ Queue # <<>>

C29_ResponseDemux ==
    [][CompleteResponse
        => IF ev'.lid = plc.req_id[Head(Queue)]
           THEN /\ ev'.delivered = Head(Queue)
                /\ Queue' = Tail(Queue)
           ELSE /\ ev'.delivered = 0
                /\ Queue' = Queue
                /\ plc'.req_id = plc.req_id
                /\ ev'.err = "none"
                /\ plc'.state_func = "state_dispatch_requests"]_vars

C29_WitnessDropped ==
    /\ ev.fn = "state_tag_response_ready"
    /\ ev.lrc = "OK"
    /\ ev.delivered = 0
    /\ Queue # <<>>
    /\ plc.req_id[Head(Queue)] # INVALID_REQUEST_ID
    /\ ev.lid # plc.req_id[Head(Queue)]

\* C30: a state that waits on a socket completion, entered while the socket
\* status is pending and the PLC is not terminating, yields: the state
\* function returns ok, the thread leaves the runner, and the engine state,
\* the queue, is_connected, the buffer markers and the retry timing are what
\* they were.
WaitingStates ==
    {"state_build_layer_connect_request", "state_layer_connect_request_sent",
     "state_layer_connect_response_ready", "state_tag_request_sent",
     "state_tag_response_ready", "state_layer_disconnect_request_sent",
     "state_layer_disconnect_response_ready"}

WokenWhilePending ==
    /\ ev'.fn \in WaitingStates
    /\ sock.status = "PENDING"
    /\ ~plc.is_terminating

C30_SpuriousWakeupIsDropped ==
    [][WokenWhilePending
        => /\ ev'.err = "none"
           /\ running' = {}
           /\ mutex_owner' = "none"
           /\ plc'.state_func = plc.state_func
           /\ Queue' = Queue
           /\ plc'.req_id = plc.req_id
           /\ plc'.is_connected = plc.is_connected
           /\ plc'.payload_start = plc.payload_start
           /\ plc'.payload_end = plc.payload_end
           /\ plc'.data_capacity = plc.data_capacity
           /\ plc'.retry_interval_ms = plc.retry_interval_ms
           /\ plc'.next_retry_time = plc.next_retry_time
           /\ plc'.next_idle_timeout = plc.next_idle_timeout
           /\ sock' = sock]_vars

C30_Witness ==
    /\ ev.fn \in WaitingStates
    /\ ev.fn = plc.state_func
    /\ sock.status = "PENDING"
    /\ ~plc.is_terminating
    /\ running = {}
    /\ plc.request_list # <<>>

\* C31: in state_layer_connect_response_ready a retry result of the layer's
\* process_response takes the engine to state_build_layer_connect_request,
\* which the same thread enters at once with the socket status ok, so the
\* next connect frame is built; no back-off is applied and is_connected is
\* unchanged.  The PLC becomes connected only in
\* state_build_layer_connect_request, where connect is called.
HandshakeRetry ==
    /\ ev'.fn = "state_layer_connect_response_ready"
    /\ ev'.lrc = "RETRY"

C31_RetryRebuildsConnect ==
    [][/\ HandshakeRetry
          => /\ plc'.state_func = "state_build_layer_connect_request"
             /\ running' = running
             /\ running' # {}
             /\ mutex_owner' = mutex_owner
             /\ sock' = sock
             /\ sock'.status = "OK"
             /\ ~plc'.is_terminating
             /\ ev'.err = "none"
             /\ plc'.retry_interval_ms = plc.retry_interval_ms
             /\ plc'.next_retry_time = plc.next_retry_time
             /\ plc'.is_connected = plc.is_connected
       /\ (~plc.is_connected /\ plc'.is_connected)
          => /\ ev'.fn = "state_build_layer_connect_request"
             /\ plc'.state_func = "state_dispatch_requests"]_vars

C31_Witness ==
    /\ ev.fn = "state_layer_connect_response_ready"
    /\ ev.lrc = "RETRY"
    /\ plc.state_func = "state_build_layer_connect_request"
    /\ running # {}
    /\ ~plc.is_connected

\* C32: in each of the three response-ready states a partial result of the
\* layer's process_response, the read being armed again without error, is no
\* error: the read callback is armed, the state is the same, the thread
\* leaves the runner and the retry timing is unchanged.
ResponseReadyStates ==
    {"state_layer_connect_response_ready", "state_tag_response_ready",
     "state_layer_disconnect_response_ready"}

PartialInResponseReady ==
    /\ ev'.fn \in ResponseReadyStates
    /\ ev'.lrc = "PARTIAL"
    /\ ev'.err = "none"

C32_PartialRearmsTheRead ==
    [][PartialInResponseReady
        => /\ sock'.armed = "read"
           /\ plc'.state_func = plc.state_func
           /\ running' = {}
           /\ plc'.retry_interval_ms = plc.retry_interval_ms
           /\ plc'.next_retry_time = plc.next_retry_time]_vars

\* C33: while next_retry_time is in the future and the PLC is neither
\* terminating nor idle-expired, a dispatch entry yields and starts nothing,
\* whatever the queue holds; the engine enters state_start_connect or
\* state_reserve_space_for_tag_request only from a dispatch entry made at or
\* after next_retry_time, and a socket connect is armed only then.
GateClosed ==
    /\ plc.next_retry_time > now
    /\ ~plc.is_terminating
    /\ ~IdleExpired(plc)

StartsWork ==
    /\ plc'.state_func \in {"state_start_connect",
                            "state_reserve_space_for_tag_request"}
    /\ plc'.state_func # plc.state_func

C33_BackoffGate ==
    [][/\ (ev'.fn = "state_dispatch_requests" /\ GateClosed)
          => /\ plc' = plc
             /\ sock' = sock
             /\ running' = {}
       /\ StartsWork
          => /\ ev'.fn = "state_dispatch_requests"
             /\ plc.next_retry_time <= now
       /\ (sock'.armed = "connect" /\ sock.armed # "connect")
          => /\ ev'.fn = "state_start_connect"
             /\ plc.next_retry_time <= now]_vars

C33_Witness ==
    /\ ev.fn = "state_dispatch_requests"
    /\ plc.state_func = "state_dispatch_requests"
    /\ Queue # <<>>
    /\ plc.next_retry_time > now
    /\ running = {}

\* C34: is_terminating, once set, stays set; while it is set the engine arms
\* no socket connect and arms a write only in
\* state_build_layer_disconnect_request (a disconnect frame); a dispatch entry
\* of a terminating PLC that is not connected goes to state_terminate, and
\* the engine never leaves state_terminate.
FrameWritten == sock'.armed = "write" /\ sock.armed # "write"

ConnectStarted == sock'.armed = "connect" /\ sock.armed # "connect"

C34_TerminatingShutsDown ==
    [][/\ plc.is_terminating => plc'.is_terminating
       /\ plc.is_terminating => ~ConnectStarted
       /\ (plc.is_terminating /\ FrameWritten)
          => ev'.fn = "state_build_layer_disconnect_request"
       /\ (plc.is_terminating /\ ev'.fn = "state_dispatch_requests"
             /\ ~plc.is_connected)
          => plc'.state_func = "state_terminate"
       /\ plc.state_func = "state_terminate"
          => plc'.state_func = "state_terminate"]_vars

C34_Witness ==
    /\ plc.is_terminating
    /\ ev.fn = "state_dispatch_requests"
    /\ plc.state_func = "state_terminate"
    /\ Queue # <<>>

C34_WitnessDisconnectFrame ==
    /\ plc.is_terminating
    /\ ev.fn = "state_build_layer_disconnect_request"
    /\ sock.armed = "write"

\* C35: one frame is in flight at a time.  A state function that issues a
\* write does so when no socket operation is outstanding (the last one has
\* completed, with ok or with an error that the engine handled), or, on a
\* terminating PLC, when only a read is; the engine leaves
\* state_tag_request_sent only when the write has completed, and leaves
\* state_tag_response_ready only when the read has completed or the PLC is
\* terminating; a read is armed only when no operation is outstanding and the
\* socket status is ok.
Yields == running' # running /\ ev'.kind = "state" /\ ev'.err = "none"

WriteIssued ==
    /\ Yields
    /\ ev'.fn \in {"state_build_tag_request",
                   "state_build_layer_connect_request",
                   "state_build_layer_disconnect_request"}
    /\ sock'.armed = "write"

ReadArmed ==
    /\ Yields
    /\ sock'.armed = "read"
    /\ sock' # sock

C35_OneFrameInFlight ==
    [][/\ WriteIssued
          => \/ sock.armed = "none" /\ sock.status # "PENDING"
             \/ sock.armed = "read" /\ plc.is_terminating
       /\ (WriteIssued /\ ev'.fn = "state_build_tag_request")
          => /\ sock.armed = "none"
             /\ plc'.state_func = "state_tag_request_sent"
       /\ (plc.state_func = "state_tag_request_sent"
             /\ plc'.state_func # "state_tag_request_sent")
          => sock.armed = "none" /\ sock.status # "PENDING"
       /\ (plc.state_func = "state_tag_response_ready"
             /\ plc'.state_func # "state_tag_response_ready")
          => \/ sock.armed = "none" /\ sock.status # "PENDING"
             \/ plc.is_terminating
       /\ ReadArmed
          => sock.armed = "none" /\ sock.status = "OK"]_vars

C35_Witness ==
    /\ ev.fn = "state_tag_request_sent"
    /\ plc.state_func = "state_tag_response_ready"
    /\ sock.armed = "read"
    /\ Len(Queue) = 2

\* C36: every invocation of plc_state_runner ends: a thread that is inside
\* the loop of plc_state_runner eventually leaves it (and with it the
\* critical block of the PLC mutex), whatever the socket and the layers
\* return.
C36_RunnerTerminates ==
    \A t \in Threads :
        (t \in running /\ life # "destroyed")
            ~> (t \notin running \/ life = "destroyed")

\* C37: plc_initialize leaves the PLC not connected and the engine able to
\* go on: when the call has returned and no thread is inside the state
\* machine, the engine is in dispatch (where the heartbeat and
\* plc_start_request run it) or in its terminal state, or a socket callback
\* is armed that will run it; it is not left in a state that waits for a
\* callback of the socket the reset closed.
C37_InitializeLeavesEngineRunnable ==
    api_ret.op = "initialize"
        => /\ ~plc.is_connected
           /\ running = {}
                => \/ plc.state_func \in {"state_dispatch_requests",
                                          "state_terminate"}
                   \/ sock.armed # "none"

\* C38: plc_get_buffer_size returns the capacity of the buffer, and called
\* right after a plc_set_buffer_size(n) that returned ok with n > 0 it
\* returns at least n, whatever the engine state and the payload markers.
C38_BufferSizeRoundTrip ==
    [][api_ret'.op = "get_buffer_size"
        => /\ api_ret'.req = plc.data_capacity
           /\ (api_ret.op = "set_buffer_size" /\ api_ret.rc = "OK"
                 /\ api_ret.req > 0)
              => api_ret'.req >= api_ret.req]_vars

\* C39: plc_stop_request(r) removes r and nothing else.  When r is queued it
\* returns ok and the queue afterwards is the queue before without r, the
\* other requests in the order they had; when r is not queued it returns
\* not_found and the queue is the same.  Nothing else of the PLC changes, the
\* socket is untouched and no thread enters the state machine.
Without(r, queue) == SelectSeq(queue, LAMBDA x : x # r)

Stopped == api_ret'.op = "stop"

C39_WitnessNotFound ==
    /\ api_ret.op = "stop"
    /\ api_ret.rc = "NOT_FOUND"
    /\ Queue # <<>>

\* C40: a failed connect attempt does not leave the socket open.  When
\* state_start_disconnect finds the PLC not connected (an error sent the
\* engine there before the handshake was over) and goes back to dispatch, the
\* socket is closed; and a socket connect is started only on a closed socket.
\* The first part is stated for the failures of a layer on a socket that
\* works (status ok), where the connection to the PLC is certainly open.
FailedConnectEnds ==
    /\ ev'.fn = "state_start_disconnect"
    /\ ~plc.is_connected
    /\ sock.status = "OK"
    /\ plc'.state_func = "state_dispatch_requests"

C40_FailedConnectClosesSocket ==
    [][/\ FailedConnectEnds => ~sock'.open
       /\ ConnectStarted => ~sock.open]_vars

====
